---- MODULE Spec2Model ----
(***************************************************************************)
(* The KAMIS market-price pipelines (fertilizer.py, livestock.py): a       *)
(* paginated fetch, normalisation, the month-start rollover, the append    *)
(* into the month's BigQuery table and the read / drop / dedup / recreate  *)
(* / reload reconciliation pass, followed by the job wait.  Both scripts   *)
(* are modelled by one state machine; the variable pipeline selects the    *)
(* script, and every place where the two differ is a definition taking     *)
(* the pipeline.  A script is re-run by the scheduler, so a behaviour is   *)
(* a sequence of non-overlapping runs against one persistent store.        *)
(***************************************************************************)
EXTENDS Integers, Sequences, FiniteSets, Bags, TLC

VARIABLES
    pipeline,                 \* which script this is: "fertilizer" or "livestock"
    store,                    \* the dataset: table suffix -> table
    runs,                     \* number of runs started so far
    now,                      \* datetime.now() taken at start-up of the run
    pc,                       \* position of the run in the script
    outcome,                  \* "none" (no run yet), "running", "exit0", "error"
    idx,                      \* index of the loop variable commodity in commodities
    offset,                   \* the pagination offset
    bigdata,                  \* the batch data frame (sequence of rows)
    has_current_month_data,   \* fertilizer's guard flag
    data,                     \* the reconciliation data frame (sequence of rows)
    shape,                    \* rows of data as printed after the read
    job,                      \* the final load job
    ops,                      \* the store calls of this run, in order
    served,                   \* rows the site has served so far
    history,                  \* the attempts of the page request in progress
    clock                     \* the wall clock (the script reads it at start-up only)

vars == <<pipeline, store, runs, now, pc, outcome, idx, offset, bigdata,
          has_current_month_data, data, shape, job, ops, served, history, clock>>

----------------------------------------------------------------------------
(* Bounds of the model *)

\* runs of the script in one behaviour (see MaxRunsOf)
MaxRuns == 1
\* rows the site serves in one behaviour, over all runs and pages (a request
\* that would exceed it fails)
MaxRows == 2
\* successful pages per commodity at most (the next request fails)
MaxPages == 2
\* rows of a frame handed to the dedup step on its own (SpecDedup, SpecWait)
MaxFrame == 3
\* years after 2024 whose days a run can start on (SpecCalendar)
MaxYears == 1

(* Program constants *)

\* per_page=3000 and offset += 3000
PageSize == 3000

\* Retry(total=5, ...): the retries a request is allowed
total == 5

\* Retry(..., status_forcelist=[429,500,502,503,504], ...)
status_forcelist == {429, 500, 502, 503, 504}

\* the statuses for which urllib3 honours a Retry-After header
RETRY_AFTER_STATUS_CODES == {413, 429, 503}

Pipelines == {"fertilizer", "livestock"}

\* the commodities list of each script
commodities(p) ==
    IF p = "fertilizer"
    THEN <<217>>
    ELSE <<140, 168, 167, 211, 227>>

\* the start-up times a run may take; time does not go backwards between runs
Dates ==
    { [year |-> 2024, month |-> 12, day |-> 31],
      [year |-> 2025, month |-> 1, day |-> 1],
      [year |-> 2025, month |-> 1, day |-> 2] }

\* the dates the site's rows carry
RowDates ==
    { [year |-> 2024, month |-> 12, day |-> 30],
      [year |-> 2025, month |-> 1, day |-> 1] }

Grades == {"G1"}
Sexes == {"Male"}

DateLeq(a, b) ==
    \/ a.year < b.year
    \/ a.year = b.year /\ a.month < b.month
    \/ a.year = b.year /\ a.month = b.month /\ a.day <= b.day

----------------------------------------------------------------------------
(* Dates and table names *)

MonthAbbr(m) ==
    <<"jan", "feb", "mar", "apr", "may", "jun",
      "jul", "aug", "sep", "oct", "nov", "dec">>[m]

IsLeap(y) == (y % 4 = 0 /\ y % 100 # 0) \/ y % 400 = 0

DaysInMonth(y, m) ==
    IF m = 2 THEN (IF IsLeap(y) THEN 29 ELSE 28)
    ELSE IF m \in {4, 6, 9, 11} THEN 30 ELSE 31

\* d - timedelta(days=1)
MinusOneDay(d) ==
    IF d.day > 1 THEN [d EXCEPT !.day = @ - 1]
    ELSE IF d.month = 1
         THEN [year |-> d.year - 1, month |-> 12, day |-> 31]
         ELSE [year |-> d.year, month |-> d.month - 1,
               day |-> DaysInMonth(d.year, d.month - 1)]

\* f"{year}_{month}" with month = strftime("%b").lower()
table_suffix(d) == <<d.year, MonthAbbr(d.month)>>

\* faulty variant of prev_month_date, for sensitivity: the month before, in the year of now
prev_month_date_sameyear(d) ==
    IF d.month = 1
    THEN [year |-> d.year, month |-> 12, day |-> 31]
    ELSE MinusOneDay([d EXCEPT !.day = 1])

\* now.replace(day=1) - timedelta(days=1)
prev_month_date(d) == MinusOneDay([d EXCEPT !.day = 1])

prev_table_suffix(d) == table_suffix(prev_month_date(d))

\* every table a run of the model can name
Suffixes == {table_suffix(d) : d \in Dates} \cup {prev_table_suffix(d) : d \in Dates}

----------------------------------------------------------------------------
(* Rows, data frames and tables *)

\* the columns of the data frame the script works with after normalisation
Columns(p) ==
    IF p = "fertilizer"
    THEN {"commodity", "classification", "market", "wholesale", "retail",
          "supply_volume", "county", "date"}
    ELSE {"commodity", "classification", "grade", "sex", "market", "wholesale",
          "retail", "supply_volume", "county", "date"}

\* subset= of duplicated / drop_duplicates
DedupSubset(p) ==
    IF p = "fertilizer"
    THEN {"commodity", "classification", "market", "wholesale", "retail",
          "supply_volume", "county", "date"}
    ELSE {"commodity", "classification", "grade", "sex", "market", "wholesale",
          "retail", "supply_volume", "county", "date"}

\* the column the reconciliation query orders by ("" when it has no ORDER BY)
ReconOrderBy(p) == IF p = "fertilizer" THEN "start_date" ELSE ""

\* the column the previous-month query orders by
PrevOrderBy(p) == IF p = "fertilizer" THEN "date" ELSE ""

\* the rows one page of the site can hold for a commodity
RawRows(c) ==
    [commodity : {c}, grade : Grades, sex : Sexes, date : RowDates]

\* the pages a successful request can return: the first table of the response
Pages(c) ==
    UNION { [1..n -> RawRows(c)] : n \in 0..MaxRows }

\* bigdata.drop(columns=['grade', 'sex']) of fertilizer; livestock keeps them
NormalizeRow(p, r) ==
    [f \in (DOMAIN r) \cap Columns(p) |-> r[f]]

\* the cleaning block applied to the whole batch
Normalize(p, rows) ==
    [i \in 1..Len(rows) |-> NormalizeRow(p, rows[i])]

\* the dedup key of a row: its values on the subset columns
KeyOf(p, r) ==
    [f \in (DOMAIN r) \cap DedupSubset(p) |-> r[f]]

RECURSIVE DropFrom(_, _, _)
DropFrom(p, rows, i) ==
    IF i > Len(rows) THEN <<>>
    ELSE (IF \E j \in 1..(i - 1) : KeyOf(p, rows[j]) = KeyOf(p, rows[i])
          THEN <<>>
          ELSE <<rows[i]>>) \o DropFrom(p, rows, i + 1)

RECURSIVE DropFromLast(_, _, _)
DropFromLast(p, rows, i) ==
    IF i > Len(rows) THEN <<>>
    ELSE (IF \E j \in (i + 1)..Len(rows) : KeyOf(p, rows[j]) = KeyOf(p, rows[i])
          THEN <<>>
          ELSE <<rows[i]>>) \o DropFromLast(p, rows, i + 1)

\* faulty variant of drop_duplicates, for sensitivity: keep='last'
drop_duplicates_last(p, rows) == DropFromLast(p, rows, 1)

\* faulty variant of drop_duplicates, for sensitivity: the duplicates are counted but not removed
drop_duplicates_kept(p, rows) == rows

\* data.drop_duplicates(subset=..., inplace=True): keep='first'
drop_duplicates(p, rows) == DropFrom(p, rows, 1)

RECURSIVE SeqToBag(_)
SeqToBag(rows) ==
    IF rows = <<>> THEN EmptyBag
    ELSE SetToBag({Head(rows)}) (+) SeqToBag(Tail(rows))

\* every order in which a query without ORDER BY can return a table's rows
RECURSIVE Orderings(_)
Orderings(b) ==
    IF BagToSet(b) = {} THEN { <<>> }
    ELSE UNION { { <<r>> \o s : s \in Orderings(b (-) SetToBag({r})) }
                 : r \in BagToSet(b) }

DateLess(a, b) == DateLeq(a, b) /\ a # b

\* ORDER BY date DESC: rows of equal date come in any order
IsDateDesc(rows) ==
    \A i \in 1..Len(rows) : \A j \in 1..Len(rows) :
        i < j => ~DateLess(rows[i].date, rows[j].date)

\* a table that does not exist
NoTable == [exists |-> FALSE, rows |-> EmptyBag, columns |-> {}, schema |-> "none"]

\* the rows a SELECT * returns, for each order-by clause
QueryResults(t, orderBy) ==
    IF orderBy = "" THEN Orderings(t.rows)
    ELSE { s \in Orderings(t.rows) : IsDateDesc(s) }

\* what a query on a table answers: "not_found", "bad_request" or "ok"
QueryStatus(t, orderBy) ==
    IF ~t.exists THEN "not_found"
    ELSE IF orderBy # "" /\ orderBy \notin t.columns THEN "bad_request"
    ELSE "ok"

\* load_table_from_dataframe with WRITE_APPEND: the rows are added, and a
\* missing table is created with the structure inferred from the frame
LoadAppend(p, t, rows) ==
    IF t.exists
    THEN [t EXCEPT !.rows = @ (+) SeqToBag(rows)]
    ELSE [exists |-> TRUE, rows |-> SeqToBag(rows),
          columns |-> Columns(p), schema |-> "inferred"]

\* faulty variant of CreateTable, for sensitivity: the table is made without the schema list
CreateTable_noschema(p) ==
    [exists |-> TRUE, rows |-> EmptyBag, columns |-> Columns(p), schema |-> "inferred"]

\* client.create_table(table) with the schema list of the script
CreateTable(p) ==
    [exists |-> TRUE, rows |-> EmptyBag, columns |-> Columns(p), schema |-> "explicit"]

\* COUNT(*) ... WHERE month and year of date are those of now
CountCurrentMonth(t, d) ==
    BagCardinality([r \in { x \in BagToSet(t.rows) :
                              x.date.month = d.month /\ x.date.year = d.year }
                    |-> t.rows[r]])

----------------------------------------------------------------------------
(* The state machine *)

\* faulty variant of table_id, for sensitivity: the suffix is taken from the clock at each use
table_id_at_use == table_suffix(clock)

\* the current-period table of the run: market_prices_{table_suffix}
table_id == table_suffix(now)

\* the previous-period table of the run
prev_table_id == prev_table_suffix(now)

\* the loop variable of the commodity loop
commodity == commodities(pipeline)[idx]

\* only fertilizer checks for current-month data before the rollover
HasGuard(p) == p = "fertilizer"

\* runs explored per script: fertilizer's guard only shows on a re-run, and
\* its single commodity keeps a further run small
MaxRunsOf(p) == IF p = "fertilizer" THEN MaxRuns + 1 ELSE MaxRuns

NoJob == [state |-> "NONE", server |-> "NONE"]

Call(op, t, res) == [op |-> op, table |-> t, result |-> res]

Logged(op, t, res) == Append(ops, Call(op, t, res))

\* an unhandled exception: the interpreter ends the run with a non-zero status
Raise ==
    /\ pc' = "exit"
    /\ outcome' = "error"

\* a store call of the log failed for a reason outside the script
Faulted(log) == \E i \in 1..Len(log) : log[i].result = "error"

Init ==
    /\ pipeline \in Pipelines
    /\ store = [s \in Suffixes |-> NoTable]
    /\ runs = 0
    /\ now = CHOOSE d \in Dates : \A e \in Dates : DateLeq(d, e)
    /\ pc = "idle"
    /\ outcome = "none"
    /\ idx = 1
    /\ offset = 0
    /\ bigdata = <<>>
    /\ has_current_month_data = FALSE
    /\ data = <<>>
    /\ shape = 0
    /\ job = NoJob
    /\ ops = <<>>
    /\ served = 0
    /\ history = <<>>
    /\ clock = now

\* start-up of a run: now, the session, the client, the empty batch
StartRun(d) ==
    /\ pc \in {"idle", "exit"}
    /\ runs < MaxRunsOf(pipeline)
    /\ job.server # "RUNNING"
    /\ runs > 0 => DateLeq(now, d)
    /\ runs' = runs + 1
    /\ now' = d
    /\ pc' = "fetch"
    /\ outcome' = "running"
    /\ idx' = 1
    /\ offset' = 0
    /\ bigdata' = <<>>
    /\ has_current_month_data' = FALSE
    /\ data' = <<>>
    /\ shape' = 0
    /\ job' = NoJob
    /\ ops' = <<>>
    /\ UNCHANGED <<pipeline, store, served, history>>
    /\ clock' = d

\* faulty variant of FetchPage, for sensitivity: the offset is not advanced
FetchPage_samepage(page) ==
    /\ pc = "fetch"
    /\ offset < MaxPages * PageSize
    /\ served + Len(page) <= MaxRows
    /\ served' = served + Len(page)
    /\ bigdata' = bigdata \o page
    /\ offset' = offset
    /\ UNCHANGED <<history, clock, pipeline, store, runs, now, pc, outcome, idx,
                   has_current_month_data, data, shape, job, ops>>

\* a page request succeeds: its first table is appended to the batch
\* (the site serves MaxRows rows and MaxPages pages per commodity at most)
FetchPage(page) ==
    /\ pc = "fetch"
    /\ offset < MaxPages * PageSize
    /\ served + Len(page) <= MaxRows
    /\ served' = served + Len(page)
    /\ bigdata' = bigdata \o page
    /\ offset' = offset + PageSize
    /\ UNCHANGED <<history, clock, pipeline, store, runs, now, pc, outcome, idx,
                   has_current_month_data, data, shape, job, ops>>

\* faulty variant of FetchFail, for sensitivity: the failure ends the whole commodity loop
FetchFail_abort ==
    /\ pc = "fetch"
    /\ pc' = "collected"
    /\ UNCHANGED <<history, clock, pipeline, store, runs, now, outcome, idx, offset, bigdata,
                   has_current_month_data, data, shape, job, ops, served>>

\* a page request or its parse fails: break, and the next commodity starts
FetchFail ==
    /\ pc = "fetch"
    /\ IF idx < Len(commodities(pipeline))
       THEN /\ idx' = idx + 1
            /\ offset' = 0
            /\ pc' = "fetch"
       ELSE /\ pc' = "collected"
            /\ UNCHANGED <<idx, offset>>
    /\ UNCHANGED <<history, clock, pipeline, store, runs, now, outcome, bigdata,
                   has_current_month_data, data, shape, job, ops, served>>

\* faulty variant of EmptyExit, for sensitivity: the empty batch is loaded like any other
EmptyExit_load ==
    /\ pc = "collected"
    /\ bigdata = <<>>
    /\ pc' = "normal_load"
    /\ UNCHANGED <<history, clock, pipeline, store, runs, now, outcome, idx, offset, bigdata,
                   has_current_month_data, data, shape, job, ops, served>>

\* if bigdata.empty: sys.exit(0)
EmptyExit ==
    /\ pc = "collected"
    /\ bigdata = <<>>
    /\ pc' = "exit"
    /\ outcome' = "exit0"
    /\ UNCHANGED <<history, clock, pipeline, store, runs, now, idx, offset, bigdata,
                   has_current_month_data, data, shape, job, ops, served>>

\* where the script goes after the cleaning block
AfterClean(p, d) ==
    IF d.day = 1
    THEN (IF HasGuard(p) THEN "check" ELSE "prev_read")
    ELSE "normal_load"

\* clean names, standardise types, drop variables, define the table id
Clean ==
    /\ pc = "collected"
    /\ bigdata # <<>>
    /\ bigdata' = Normalize(pipeline, bigdata)
    /\ pc' = AfterClean(pipeline, now)
    /\ UNCHANGED <<history, clock, pipeline, store, runs, now, outcome, idx, offset,
                   has_current_month_data, data, shape, job, ops, served>>

\* faulty variant of AfterCheck, for sensitivity: the guard flag is computed and not used
AfterCheck_ignored(has) == "prev_read"

\* where fertilizer goes once the guard flag is known
AfterCheck(has) == IF has THEN "recon_read" ELSE "prev_read"

\* fertilizer: does the current month's table already hold current-month rows
CheckCurrentMonth ==
    /\ pc = "check"
    /\ \E fault \in BOOLEAN :
         IF fault
         THEN /\ ops' = Logged("count", table_id, "error")
              /\ Raise
              /\ UNCHANGED has_current_month_data
         ELSE /\ has_current_month_data' =
                    IF QueryStatus(store[table_id], "") = "not_found"
                    THEN FALSE
                    ELSE CountCurrentMonth(store[table_id], now) > 0
              /\ ops' = Logged("count", table_id, QueryStatus(store[table_id], ""))
              /\ pc' = AfterCheck(has_current_month_data')
              /\ UNCHANGED outcome
    /\ UNCHANGED <<history, clock, pipeline, store, runs, now, idx, offset, bigdata,
                   data, shape, job, served>>

\* the read of the previous month's table, prepended to the batch
PrevRead ==
    /\ pc = "prev_read"
    /\ \E fault \in BOOLEAN :
         IF fault
         THEN /\ ops' = Logged("select", prev_table_id, "error")
              /\ pc' = "recon_read"
              /\ UNCHANGED bigdata
         ELSE LET st == QueryStatus(store[prev_table_id], PrevOrderBy(pipeline)) IN
              /\ ops' = Logged("select", prev_table_id, st)
              /\ pc' = IF st = "bad_request" THEN "recon_read" ELSE "first_load"
              /\ IF st = "ok"
                 THEN \E prev_data \in QueryResults(store[prev_table_id],
                                                   PrevOrderBy(pipeline)) :
                          bigdata' = prev_data \o bigdata
                 ELSE UNCHANGED bigdata
    /\ UNCHANGED <<history, clock, pipeline, store, runs, now, outcome, idx, offset,
                   has_current_month_data, data, shape, job, served>>

\* the first-of-month append, inside try / except Exception
FirstLoad ==
    /\ pc = "first_load"
    /\ \E fault \in BOOLEAN :
         IF fault
         THEN /\ ops' = Logged("load", table_id, "error")
              /\ UNCHANGED store
         ELSE /\ ops' = Logged("load", table_id, "ok")
              /\ store' = [store EXCEPT ![table_id] = LoadAppend(pipeline, @, bigdata)]
    /\ pc' = "recon_read"
    /\ UNCHANGED <<history, clock, pipeline, runs, now, outcome, idx, offset, bigdata,
                   has_current_month_data, data, shape, job, served>>

\* faulty variant of NormalLoad, for sensitivity: the append sits in a try / except that only prints
NormalLoad_caught ==
    /\ pc = "normal_load"
    /\ \E fault \in BOOLEAN :
         IF fault
         THEN /\ ops' = Logged("load", table_id, "error")
              /\ UNCHANGED store
         ELSE /\ ops' = Logged("load", table_id, "ok")
              /\ store' = [store EXCEPT ![table_id] = LoadAppend(pipeline, @, bigdata)]
    /\ pc' = "recon_read"
    /\ UNCHANGED <<history, clock, pipeline, runs, now, outcome, idx, offset, bigdata,
                   has_current_month_data, data, shape, job, served>>

\* the normal workflow's append, outside any try
NormalLoad ==
    /\ pc = "normal_load"
    /\ \E fault \in BOOLEAN :
         IF fault
         THEN /\ ops' = Logged("load", table_id, "error")
              /\ Raise
              /\ UNCHANGED store
         ELSE /\ ops' = Logged("load", table_id, "ok")
              /\ store' = [store EXCEPT ![table_id] = LoadAppend(pipeline, @, bigdata)]
              /\ pc' = "recon_read"
              /\ UNCHANGED outcome
    /\ UNCHANGED <<history, clock, pipeline, runs, now, idx, offset, bigdata,
                   has_current_month_data, data, shape, job, served>>

\* faulty variant of ReconRead, for sensitivity: a failed read is printed and the pass goes on
ReconRead_caught ==
    /\ pc = "recon_read"
    /\ \E fault \in BOOLEAN :
         LET st == IF fault THEN "error"
                   ELSE QueryStatus(store[table_id], ReconOrderBy(pipeline)) IN
         /\ ops' = Logged("select", table_id, st)
         /\ IF st = "ok"
            THEN \E rows \in QueryResults(store[table_id], ReconOrderBy(pipeline)) :
                    /\ data' = rows
                    /\ shape' = Len(rows)
            ELSE UNCHANGED <<data, shape>>
         /\ pc' = "delete"
    /\ UNCHANGED <<history, clock, pipeline, store, runs, now, outcome, idx, offset, bigdata,
                   has_current_month_data, job, served>>

\* the reconciliation read of the whole current-period table
ReconRead ==
    /\ pc = "recon_read"
    /\ \E fault \in BOOLEAN :
         LET st == IF fault THEN "error"
                   ELSE QueryStatus(store[table_id], ReconOrderBy(pipeline)) IN
         /\ ops' = Logged("select", table_id, st)
         /\ IF st = "ok"
            THEN /\ \E rows \in QueryResults(store[table_id], ReconOrderBy(pipeline)) :
                        /\ data' = rows
                        /\ shape' = Len(rows)
                 /\ pc' = "delete"
                 /\ UNCHANGED outcome
            ELSE /\ Raise
                 /\ UNCHANGED <<data, shape>>
    /\ UNCHANGED <<history, clock, pipeline, store, runs, now, idx, offset, bigdata,
                   has_current_month_data, job, served>>

\* faulty variant of DeleteTable, for sensitivity: the rows are deleted and the table is kept
DeleteTable_truncate ==
    /\ pc = "delete"
    /\ \E fault \in BOOLEAN :
         LET st == IF fault THEN "error"
                   ELSE IF store[table_id].exists THEN "ok" ELSE "not_found" IN
         /\ ops' = Logged("delete_table", table_id, st)
         /\ IF st = "ok"
            THEN /\ store' = [store EXCEPT ![table_id].rows = EmptyBag]
                 /\ data' = drop_duplicates(pipeline, data)
                 /\ pc' = "create"
                 /\ UNCHANGED outcome
            ELSE /\ Raise
                 /\ UNCHANGED <<store, data>>
    /\ UNCHANGED <<history, clock, pipeline, runs, now, idx, offset, bigdata,
                   has_current_month_data, shape, job, served>>

\* client.delete_table, then the duplicate count and drop_duplicates
DeleteTable ==
    /\ pc = "delete"
    /\ \E fault \in BOOLEAN :
         LET st == IF fault THEN "error"
                   ELSE IF store[table_id].exists THEN "ok" ELSE "not_found" IN
         /\ ops' = Logged("delete_table", table_id, st)
         /\ IF st = "ok"
            THEN /\ store' = [store EXCEPT ![table_id] = NoTable]
                 /\ data' = drop_duplicates(pipeline, data)
                 /\ pc' = "create"
                 /\ UNCHANGED outcome
            ELSE /\ Raise
                 /\ UNCHANGED <<store, data>>
    /\ UNCHANGED <<history, clock, pipeline, runs, now, idx, offset, bigdata,
                   has_current_month_data, shape, job, served>>

\* client.create_table inside try / except Exception: a failure is printed
RecreateTable ==
    /\ pc = "create"
    /\ \E fault \in BOOLEAN :
         LET st == IF fault THEN "error"
                   ELSE IF store[table_id].exists THEN "conflict" ELSE "ok" IN
         /\ ops' = Logged("create_table", table_id, st)
         /\ IF st = "ok"
            THEN store' = [store EXCEPT ![table_id] = CreateTable(pipeline)]
            ELSE UNCHANGED store
    /\ pc' = "final_load"
    /\ UNCHANGED <<history, clock, pipeline, runs, now, outcome, idx, offset, bigdata,
                   has_current_month_data, data, shape, job, served>>

\* load_table_from_dataframe(data, table_id): the job is submitted
FinalLoad ==
    /\ pc = "final_load"
    /\ \E fault \in BOOLEAN :
         IF fault
         THEN /\ ops' = Logged("load", table_id, "error")
              /\ Raise
              /\ UNCHANGED job
         ELSE /\ ops' = Logged("load", table_id, "ok")
              /\ job' = [state |-> "RUNNING", server |-> "RUNNING"]
              /\ pc' = "wait"
              /\ UNCHANGED outcome
    /\ UNCHANGED <<history, clock, pipeline, store, runs, now, idx, offset, bigdata,
                   has_current_month_data, data, shape, served>>

\* the store finishes the load job: the rows are written, or the job failed
JobComplete(failed) ==
    /\ job.server = "RUNNING"
    /\ job' = [job EXCEPT !.server = "DONE"]
    /\ IF failed
       THEN UNCHANGED store
       ELSE store' = [store EXCEPT ![table_id] = LoadAppend(pipeline, @, data)]
    /\ UNCHANGED <<history, clock, pipeline, runs, now, pc, outcome, idx, offset, bigdata,
                   has_current_month_data, data, shape, ops, served>>

\* one turn of the wait loop: sleep, job.reload(), print
JobReload ==
    /\ pc = "wait"
    /\ job.state # "DONE"
    /\ \E fault \in BOOLEAN :
         IF fault
         THEN /\ ops' = Logged("reload", table_id, "error")
              /\ Raise
              /\ UNCHANGED job
         ELSE /\ job' = [job EXCEPT !.state = job.server]
              /\ UNCHANGED <<ops, pc, outcome>>
    /\ UNCHANGED <<history, clock, pipeline, store, runs, now, idx, offset, bigdata,
                   has_current_month_data, data, shape, served>>

\* faulty variant of Finish, for sensitivity: the wait gives up on a job that is not DONE
Finish_timeout ==
    /\ pc = "wait"
    /\ pc' = "exit"
    /\ outcome' = "exit0"
    /\ UNCHANGED <<history, clock, pipeline, store, runs, now, idx, offset, bigdata,
                   has_current_month_data, data, shape, job, ops, served>>

\* the wait loop ends and the script prints its last line
Finish ==
    /\ pc = "wait"
    /\ job.state = "DONE"
    /\ pc' = "exit"
    /\ outcome' = "exit0"
    /\ UNCHANGED <<history, clock, pipeline, store, runs, now, idx, offset, bigdata,
                   has_current_month_data, data, shape, job, ops, served>>

Next ==
    \/ \E d \in Dates : StartRun(d)
    \/ \E page \in Pages(commodity) : FetchPage(page)
    \/ FetchFail
    \/ EmptyExit
    \/ Clean
    \/ CheckCurrentMonth
    \/ PrevRead
    \/ FirstLoad
    \/ NormalLoad
    \/ ReconRead
    \/ DeleteTable
    \/ RecreateTable
    \/ FinalLoad
    \/ \E failed \in BOOLEAN : JobComplete(failed)
    \/ JobReload
    \/ Finish

Spec == Init /\ [][Next]_vars

----------------------------------------------------------------------------
(* The dedup step on its own: drop_duplicates applied to any frame the       *)
(* reconciliation read can return, once and then once more                   *)

\* the rows a frame of the script can hold
FrameRows(p) ==
    { NormalizeRow(p, r) :
        r \in UNION { RawRows(commodities(p)[i]) : i \in 1..Len(commodities(p)) } }

\* the frames of at most MaxFrame rows, in every read order
Frames(p) ==
    UNION { [1..n -> FrameRows(p)] : n \in 0..MaxFrame }

DedupInit ==
    /\ pipeline \in Pipelines
    /\ store = [s \in Suffixes |-> NoTable]
    /\ runs = 1
    /\ now = CHOOSE d \in Dates : \A e \in Dates : DateLeq(d, e)
    /\ pc = "dedup"
    /\ outcome = "running"
    /\ idx = 1
    /\ offset = 0
    /\ bigdata = <<>>
    /\ has_current_month_data = FALSE
    /\ data \in Frames(pipeline)
    /\ shape = Len(data)
    /\ job = NoJob
    /\ ops = <<>>
    /\ served = 0
    /\ history = <<>>
    /\ clock = now

\* data.drop_duplicates(subset=..., inplace=True), a first and a second time
ApplyDedup ==
    /\ pc \in {"dedup", "dedup_once"}
    /\ data' = drop_duplicates(pipeline, data)
    /\ pc' = IF pc = "dedup" THEN "dedup_once" ELSE "dedup_twice"
    /\ UNCHANGED <<history, clock, pipeline, store, runs, now, outcome, idx, offset, bigdata,
                   has_current_month_data, shape, job, ops, served>>

SpecDedup == DedupInit /\ [][ApplyDedup]_vars

----------------------------------------------------------------------------
(* One page request, attempt by attempt: session.get through the adapter   *)
(* mounted with max_retries=retries.  Spec takes a request as one step      *)
(* (FetchPage or FetchFail); here the attempts inside it are spelled out.   *)

Response(status, retry_after) ==
    [kind |-> "response", status |-> status, retry_after |-> retry_after]

\* no response: connection error, connect or read timeout (timeout=60)
NoResponse == [kind |-> "error", status |-> 0, retry_after |-> FALSE]

\* what one attempt can come back with
AttemptResults ==
    { Response(st, FALSE) : st \in {200, 404, 413} \cup status_forcelist }
        \cup { Response(413, TRUE), NoResponse }

\* Retry.is_retry for a GET: a forced status, or a Retry-After header on a
\* status that honours it
is_retry(res) ==
    \/ res.status \in status_forcelist
    \/ res.retry_after /\ res.status \in RETRY_AFTER_STATUS_CODES

\* the attempt asks for another one: an error (GET is in allowed_methods and
\* connect / read are not limited on their own) or a response is_retry accepts
WantsRetry(res) ==
    res.kind = "error" \/ is_retry(res)

\* Retry.is_exhausted after the increments of the attempts made so far:
\* every attempt that asks for another takes one from total
is_exhausted(attempts) == total - Len(attempts) < 0

\* the request is over: the last attempt asks for no other, or none is left
RequestOver(attempts) ==
    /\ attempts # <<>>
    /\ \/ ~WantsRetry(attempts[Len(attempts)])
       \/ is_exhausted(attempts)

RequestInit ==
    /\ pipeline \in Pipelines
    /\ store = [s \in Suffixes |-> NoTable]
    /\ runs = 1
    /\ now = CHOOSE d \in Dates : \A e \in Dates : DateLeq(d, e)
    /\ pc = "fetch"
    /\ outcome = "running"
    /\ idx = 1
    /\ offset = 0
    /\ bigdata = <<>>
    /\ has_current_month_data = FALSE
    /\ data = <<>>
    /\ shape = 0
    /\ job = NoJob
    /\ ops = <<>>
    /\ served = 0
    /\ history = <<>>
    /\ clock = now

\* urlopen sends the GET once and gets a response or an error
Attempt(res) ==
    /\ pc = "fetch"
    /\ ~RequestOver(history)
    /\ history' = Append(history, res)
    /\ UNCHANGED <<clock, pipeline, store, runs, now, pc, outcome, idx, offset, bigdata,
                   has_current_month_data, data, shape, job, ops, served>>

\* session.get is over: it returns the last response to pd.read_html, or
\* raises (ConnectionError, RetryError) into the except branch of the loop
RequestEnds ==
    /\ pc = "fetch"
    /\ RequestOver(history)
    /\ pc' = IF WantsRetry(history[Len(history)]) THEN "except" ELSE "read_html"
    /\ UNCHANGED <<history, clock, pipeline, store, runs, now, outcome, idx, offset, bigdata,
                   has_current_month_data, data, shape, job, ops, served>>

RequestNext ==
    \/ \E res \in AttemptResults : Attempt(res)
    \/ RequestEnds

SpecRequest == RequestInit /\ [][RequestNext]_vars

----------------------------------------------------------------------------
(* The job wait on its own: the run stands right after the submission of   *)
(* the reload, for any deduplicated frame, with the table recreated or not; *)
(* the loop keeps turning for as long as the script runs, the store need    *)
(* never finish the job                                                     *)

\* the log of a pass that got as far as the submission of the reload
PassLog(t, created) ==
    << Call("load", t, "ok"), Call("select", t, "ok"), Call("delete_table", t, "ok"),
       Call("create_table", t, IF created THEN "ok" ELSE "error"), Call("load", t, "ok") >>

WaitInit ==
    /\ pipeline \in Pipelines
    /\ runs = 1
    /\ now = CHOOSE d \in Dates : \A e \in Dates : DateLeq(d, e)
    /\ \E created \in BOOLEAN :
          /\ store = [s \in Suffixes |->
                        IF s = table_suffix(now) /\ created
                        THEN CreateTable(pipeline) ELSE NoTable]
          /\ ops = PassLog(table_suffix(now), created)
    /\ pc = "wait"
    /\ outcome = "running"
    /\ idx = Len(commodities(pipeline))
    /\ offset = 0
    /\ data \in { f \in Frames(pipeline) : f # <<>> /\ drop_duplicates(pipeline, f) = f }
    /\ bigdata = data
    /\ has_current_month_data = FALSE
    /\ shape = Len(data)
    /\ job = [state |-> "RUNNING", server |-> "RUNNING"]
    /\ served = Len(data)
    /\ history = <<>>
    /\ clock = now

WaitNext ==
    \/ \E failed \in BOOLEAN : JobComplete(failed)
    \/ JobReload
    \/ Finish

\* the script keeps running: a turn of the loop whose reload does not raise
\* is taken in the end, and so is the exit of the loop
SpecWait ==
    /\ WaitInit
    /\ [][WaitNext]_vars
    /\ WF_vars(JobReload /\ pc' = "wait")
    /\ WF_vars(Finish)

----------------------------------------------------------------------------
(* One run from the collected batch on, started on any day of the          *)
(* calendar, while the wall clock may pass midnight                         *)

Years == 2024..(2024 + MaxYears)

Calendar ==
    { d \in [year : Years, month : 1..12, day : 1..31] :
        d.day <= DaysInMonth(d.year, d.month) }

\* the day after d
PlusOneDay(d) ==
    IF d.day < DaysInMonth(d.year, d.month) THEN [d EXCEPT !.day = @ + 1]
    ELSE IF d.month < 12
         THEN [year |-> d.year, month |-> d.month + 1, day |-> 1]
         ELSE [year |-> d.year + 1, month |-> 1, day |-> 1]

\* every table name of the dataset around the calendar
CalendarSuffixes ==
    { <<y, MonthAbbr(m)>> : y \in (2023..(2025 + MaxYears)), m \in 1..12 }

\* a row of the first commodity with this date, as fetched
RowDated(p, d) ==
    [commodity |-> commodities(p)[1], grade |-> "G1", sex |-> "Male", date |-> d]

\* a table left by earlier runs, holding one row of this date
TableWith(p, d) ==
    [CreateTable(p) EXCEPT !.rows = SeqToBag(<<NormalizeRow(p, RowDated(p, d))>>)]

CalendarInit ==
    /\ pipeline \in Pipelines
    /\ runs = 1
    /\ now \in Calendar
    /\ clock = now
    /\ \E cur \in BOOLEAN : \E prev \in BOOLEAN :
          store = [s \in CalendarSuffixes |->
                     IF s = table_suffix(now) /\ cur THEN TableWith(pipeline, now)
                     ELSE IF s = prev_table_suffix(now) /\ prev
                          THEN TableWith(pipeline, prev_month_date(now))
                          ELSE NoTable]
    /\ pc = "collected"
    /\ outcome = "running"
    /\ idx = Len(commodities(pipeline))
    /\ offset = PageSize
    /\ bigdata = <<RowDated(pipeline, now)>>
    /\ has_current_month_data = FALSE
    /\ data = <<>>
    /\ shape = 0
    /\ job = NoJob
    /\ ops = <<>>
    /\ served = 1
    /\ history = <<>>

\* midnight passes while the run is under way (once at most)
Tick ==
    /\ pc # "exit"
    /\ clock = now
    /\ clock' = PlusOneDay(clock)
    /\ UNCHANGED <<history, pipeline, store, runs, now, pc, outcome, idx, offset, bigdata,
                   has_current_month_data, data, shape, job, ops, served>>

CalendarNext ==
    \/ Tick
    \/ Clean
    \/ CheckCurrentMonth
    \/ PrevRead
    \/ FirstLoad
    \/ NormalLoad
    \/ ReconRead
    \/ DeleteTable
    \/ RecreateTable
    \/ FinalLoad
    \/ \E failed \in BOOLEAN : JobComplete(failed)
    \/ JobReload
    \/ Finish

SpecCalendar == CalendarInit /\ [][CalendarNext]_vars

----------------------------------------------------------------------------
(* Vocabulary of the properties *)

\* the run ended after its wait loop saw the reload job DONE
ReconCompleted ==
    /\ pc = "exit"
    /\ outcome = "exit0"
    /\ job.state = "DONE"

\* no two rows of the table agree on the dedup key
UniqueKeys(t) ==
    /\ \A r \in BagToSet(t.rows) : t.rows[r] = 1
    /\ \A r1 \in BagToSet(t.rows) : \A r2 \in BagToSet(t.rows) :
          KeyOf(pipeline, r1) = KeyOf(pipeline, r2) => r1 = r2

\* positions of the log holding this call with this result
CallsAt(op, t, res) ==
    { i \in 1..Len(ops) : ops[i] = Call(op, t, res) }

\* the call at position i belongs to the rollover / append block: it comes
\* before the reconciliation read of the current-period table
BeforeRecon(i) ==
    \A j \in 1..i : ~(ops[j].op = "select" /\ ops[j].table = table_id)

\* the append into the current-period table failed at position i
AppendFailedAt(i) ==
    /\ ops[i] = Call("load", table_id, "error")
    /\ BeforeRecon(i)

\* the step is a failed page request (the only fetch step that does not advance offset)
FetchFailStep ==
    /\ pc = "fetch"
    /\ offset' # offset + PageSize

----------------------------------------------------------------------------
(* C1 *)

C2_FullPipeline ==
    (pc = "exit" /\ bigdata # <<>> /\ ~Faulted(ops)) =>
        /\ outcome = "exit0"
        /\ \E a \in CallsAt("load", table_id, "ok") :
           \E r \in CallsAt("select", table_id, "ok") :
           \E d \in CallsAt("delete_table", table_id, "ok") :
           \E c \in CallsAt("create_table", table_id, "ok") :
           \E l \in CallsAt("load", table_id, "ok") :
              /\ a < r /\ r < d /\ d < c /\ c < l
              /\ CallsAt("select", table_id, "ok") = {r}
              /\ CallsAt("delete_table", table_id, "ok") = {d}
              /\ CallsAt("create_table", table_id, "ok") = {c}
              /\ CallsAt("load", table_id, "ok") = {a, l}

(* C3 *)

\* C3: until the batch is known to be non-empty a run makes no store call
\* and changes no table, and a run whose batch is empty after the last
\* commodity exits at once with status 0.
C3_EmptyBatchNoStoreCall ==
    [][ (pc \in {"fetch", "collected"}) =>
          ( /\ store' = store
            /\ ops' = <<>>
            /\ (pc = "collected" /\ bigdata = <<>>) =>
                  (pc' = "exit" /\ outcome' = "exit0") ) ]_vars

\* a later run found nothing while the store already held a table
C3_Witness ==
    /\ pc = "exit"
    /\ outcome = "exit0"
    /\ bigdata = <<>>
    /\ ops = <<>>
    /\ runs >= 2
    /\ store[table_id].exists

(* C4 *)

\* C4: a failed page request keeps the batch as it is and keeps the run
\* going; it moves to the next commodity at offset 0, or to the end of the
\* loop after the last commodity, and the loop ends only there.
C4_FetchFailureIsLocal ==
    /\ [](pc = "collected" => idx = Len(commodities(pipeline)))
    /\ [][ FetchFailStep =>
             ( /\ bigdata' = bigdata
               /\ outcome' = "running"
               /\ IF idx < Len(commodities(pipeline))
                  THEN pc' = "fetch" /\ idx' = idx + 1 /\ offset' = 0
                  ELSE pc' = "collected" ) ]_vars

\* the third commodity is being fetched from offset 0 with the rows an
\* earlier commodity collected before its failure
C4_Witness ==
    /\ pc = "fetch"
    /\ idx = 3
    /\ offset = 0
    /\ bigdata # <<>>

(* C5 *)

\* C5 as claimed: in a run without a faulting store call, every
\* reconciliation read of the current-period table comes after a
\* successful append of the batch into that table.
C5_AppendBeforeRead ==
    ~Faulted(ops) =>
        \A r \in 1..Len(ops) :
            (ops[r].op = "select" /\ ops[r].table = table_id) =>
                \E a \in CallsAt("load", table_id, "ok") : a < r

(* C6 *)

\* C6: in fertilizer, when the guard finds current-month rows the run goes
\* straight to the reconciliation read with the batch and the store as they
\* were and never queries the previous-period table; when the
\* current-period table is missing the flag is false and the previous-table
\* read is next.
C6_GuardSkipsCarryForward ==
    /\ [](has_current_month_data =>
            \A i \in 1..Len(ops) : ops[i].table # prev_table_id)
    /\ [][ (pc = "check" /\ pc' # "exit") =>
             ( IF store[table_id].exists /\ CountCurrentMonth(store[table_id], now) > 0
               THEN ( /\ has_current_month_data'
                      /\ pc' = "recon_read"
                      /\ bigdata' = bigdata
                      /\ store' = store )
               ELSE ( /\ ~has_current_month_data'
                      /\ pc' = "prev_read" ) ) ]_vars
    /\ [][ (has_current_month_data /\ pc # "exit") => bigdata' = bigdata ]_vars

\* a first-of-month re-run found current-month rows and went on to the
\* reconciliation read without a previous-table query
C6_Witness ==
    /\ pipeline = "fertilizer"
    /\ now.day = 1
    /\ has_current_month_data
    /\ pc = "recon_read"
    /\ bigdata # <<>>
    /\ CountCurrentMonth(store[table_id], now) >= 1

(* C7 *)

\* C7 as claimed: with no previous-period table and no faulting store call,
\* the first-of-month block leaves the current-period table as the normal
\* workflow's append of the same batch would; the script is the same from
\* the reconciliation read on, so table and outcome then agree too.
C7_FirstDayLikeNormalDay ==
    [][ ( /\ now.day = 1
          /\ pc \in {"check", "prev_read", "first_load"}
          /\ pc' = "recon_read"
          /\ ~store[prev_table_id].exists
          /\ ~Faulted(ops') ) =>
        store'[table_id] = LoadAppend(pipeline, store[table_id], bigdata) ]_vars

(* C8 *)

\* C8 as claimed: a failed append ends the run at once with a non-zero
\* status, on the first of the month as on any other day.
C8_AppendFailureFatal ==
    \A i \in 1..Len(ops) :
        AppendFailedAt(i) =>
            (i = Len(ops) /\ pc = "exit" /\ outcome = "error")

\* C8 amended: on a run that is not a first-of-month run, a failed append
\* ends the run at once with a non-zero status, before any reconciliation
\* call.
C8_NormalAppendFailureFatal ==
    now.day # 1 =>
        \A i \in 1..Len(ops) :
            AppendFailedAt(i) =>
                (i = Len(ops) /\ pc = "exit" /\ outcome = "error")

\* a normal-day run ended on its failed append
C8_Witness ==
    /\ now.day # 1
    /\ pc = "exit"
    /\ outcome = "error"
    /\ ops = <<Call("load", table_id, "error")>>

(* C9 *)

\* C9 as claimed: on the first of the month a faulting call of the
\* rollover block (guard check, previous-table read, append) never ends the
\* run: the reconciliation read is what comes next.
C9_RolloverErrorsCaught ==
    now.day = 1 =>
        \A i \in 1..Len(ops) :
            (ops[i].result = "error" /\ BeforeRecon(i)) =>
                IF i = Len(ops)
                THEN pc = "recon_read" /\ outcome = "running"
                ELSE ops[i + 1].op = "select" /\ ops[i + 1].table = table_id

(* C10 *)

\* C10 as claimed: after a completed pass the current-period table exists
\* with the explicit schema, whether or not create_table succeeded.
C10_ExplicitSchema ==
    ReconCompleted =>
        (store[table_id].exists /\ store[table_id].schema = "explicit")

\* C10 amended: after a completed pass in which create_table succeeded the
\* current-period table exists with the explicit schema.
C10_ExplicitSchemaWhenCreated ==
    (ReconCompleted /\ CallsAt("create_table", table_id, "ok") # {}) =>
        (store[table_id].exists /\ store[table_id].schema = "explicit")

\* a completed pass with a successful create_table left rows in the table
C10_Witness ==
    /\ ReconCompleted
    /\ CallsAt("create_table", table_id, "ok") # {}
    /\ BagCardinality(store[table_id].rows) >= 1
    /\ store[table_id].schema = "explicit"

(* C11 *)

\* the calls of a pass in their order
PassOrder == <<"select", "delete_table", "create_table", "load", "reload">>

\* the log from its position i on is a pass begun in order: every call is
\* on the current-period table, the k-th is the k-th call of a pass, and
\* a call is followed by another only if it succeeded (create_table, whose
\* failure is printed, is followed by the load in any case)
PassFrom(i) ==
    /\ Len(ops) - i < Len(PassOrder)
    /\ \A j \in i..Len(ops) :
          /\ ops[j].table = table_id
          /\ ops[j].op = PassOrder[j - i + 1]
          /\ j < Len(ops) => (ops[j].result = "ok" \/ ops[j].op = "create_table")

\* C11: within a pass the calls on the current-period table come in the
\* order read, drop, recreate, load, each at most once, and from the drop
\* until the recreate call a reader of the table is answered "not found":
\* it never sees a table with part of the rows.
C11_DropWindow ==
    /\ (pc = "create") => (QueryStatus(store[table_id], "") = "not_found")
    /\ \A i \in 1..Len(ops) :
          (ops[i].op \in {"delete_table", "create_table", "reload"}) =>
              LET k == CHOOSE n \in 2..Len(PassOrder) : PassOrder[n] = ops[i].op IN
              /\ i > 1
              /\ ops[i - 1].op = PassOrder[k - 1]
              /\ ops[i - 1].table = table_id
    /\ \A i \in 1..Len(ops) :
          (ops[i].op = "select" /\ ops[i].table = table_id) => PassFrom(i)

\* a pass has dropped a table it read rows from and has not yet recreated it
C11_Witness ==
    /\ pc = "create"
    /\ shape >= 1
    /\ CallsAt("delete_table", table_id, "ok") # {}
    /\ ~store[table_id].exists

(* C12 *)

\* positions of the rows that have no earlier row with an equal dedup key
FirstIdx(p, rows) ==
    { i \in 1..Len(rows) :
        \A j \in 1..(i - 1) : KeyOf(p, rows[j]) # KeyOf(p, rows[i]) }

\* out is rows restricted to the first row of every key, in read order
KeepsFirst(p, rows, out) ==
    LET S == FirstIdx(p, rows) IN
    /\ Len(out) = Cardinality(S)
    /\ \A k \in 1..Len(out) :
          out[k] = rows[CHOOSE i \in S : Cardinality({ j \in S : j < i }) = k - 1]

\* C12: the dedup step keeps, for each dedup key, exactly the first row in
\* read order and drops every later row with an equal key, and a second
\* application leaves the row sequence of the first unchanged.
C12_KeepFirstIdempotent ==
    [][ /\ (pc = "dedup") => KeepsFirst(pipeline, data, data')
        /\ (pc = "dedup_once") => (data' = data) ]_vars

\* a frame of three rows lost one to the step, and the second application
\* has been made
C12_Witness ==
    /\ pc = "dedup_twice"
    /\ shape = 3
    /\ Len(data) = 2

(* C13 *)

\* the step is a successful request of the current commodity at the
\* current offset: its page joins the batch and the next offset is 3000 on
PageAppended ==
    /\ \E page \in Pages(commodity) : bigdata' = bigdata \o page
    /\ offset' = offset + PageSize
    /\ idx' = idx
    /\ pc' = "fetch"

\* the step leaves the commodity's loop with the batch as it was
LoopLeft ==
    /\ bigdata' = bigdata
    /\ IF idx < Len(commodities(pipeline))
       THEN pc' = "fetch" /\ idx' = idx + 1 /\ offset' = 0
       ELSE pc' = "collected"

\* C13: every commodity is requested at offsets 0, 3000, 6000, ... with
\* none skipped or repeated; a successful response adds its first table to
\* the batch and nothing else; the commodity's loop is left only by a
\* failed request, and the next commodity of the list starts only then.
C13_PagesInOrder ==
    /\ [](pc = "fetch" =>
            /\ idx \in 1..Len(commodities(pipeline))
            /\ offset % PageSize = 0
            /\ offset \in 0..(MaxPages * PageSize))
    /\ [][ (pc # "fetch" /\ pc' = "fetch") =>
             (idx' = 1 /\ offset' = 0 /\ bigdata' = <<>>) ]_vars
    /\ [][ (pc = "fetch") => (PageAppended \/ LoopLeft) ]_vars

\* the second commodity is at its third request, after the first gave one
\* row and failed and the second gave one row over two pages
C13_Witness ==
    /\ pipeline = "livestock"
    /\ pc = "fetch"
    /\ idx = 2
    /\ offset = 2 * PageSize
    /\ Len(bigdata) = 2
    /\ bigdata[1].commodity = commodities(pipeline)[1]
    /\ bigdata[2].commodity = commodities(pipeline)[2]

(* C14 *)

\* C14 as claimed: a page request is attempted at most 5 times in all, and
\* an attempt other than the first follows only a response whose status is
\* 429, 500, 502, 503 or 504.
C14_AtMostFiveAttempts ==
    /\ Len(history) <= 5
    /\ \A i \in 2..Len(history) :
          /\ history[i - 1].kind = "response"
          /\ history[i - 1].status \in {429, 500, 502, 503, 504}

(* C15 *)

\* C15 as claimed: the run leaves the wait loop exactly when the job's
\* state is DONE, so a run whose job is never DONE never ends.
C15_LeavesOnlyOnDone ==
    [][ (pc = "wait" /\ pc' # "wait") => (job.state = "DONE") ]_vars

\* C15 amended: the run leaves the wait loop for its normal end exactly
\* when the job's state is DONE, and otherwise only by a reload call that
\* raises, which ends the run with a non-zero status; the state is DONE
\* only once the job reported DONE; once it has, the run reaches its end.
C15_LeavesOnDoneOrReloadError ==
    /\ [][ (pc = "wait" /\ pc' # "wait") =>
             \/ ( /\ job.state = "DONE"
                  /\ pc' = "exit"
                  /\ outcome' = "exit0"
                  /\ ops' = ops )
             \/ ( /\ job.state # "DONE"
                  /\ pc' = "exit"
                  /\ outcome' = "error"
                  /\ ops' = Append(ops, Call("reload", table_id, "error")) ) ]_vars
    /\ [](job.state = "DONE" => job.server = "DONE")
    /\ [][ (pc = "wait" /\ job.state = "DONE") => (pc' = "exit") ]_vars
    /\ (job.server = "DONE") ~> (pc = "exit")

\* the job reported DONE, a turn of the loop saw it and the run ended with
\* the reloaded rows in the table
C15_Witness ==
    /\ pc = "exit"
    /\ outcome = "exit0"
    /\ job.state = "DONE"
    /\ Len(data) >= 2
    /\ store[table_id].rows = SeqToBag(data)

(* C16 *)

\* the name of the table of the calendar month before that of d
MonthBefore(d) ==
    IF d.month = 1 THEN <<d.year - 1, "dec">>
    ELSE <<d.year, MonthAbbr(d.month - 1)>>

\* C16: a run touches a table other than the one of its own month only on
\* day 1, only to read it, and the table is the one of the calendar month
\* before (December of the year before, on 1 January); on every other day
\* every store call is on the current-period table.
C16_PrevReadOnFirstDay ==
    \A i \in 1..Len(ops) :
        ops[i].table # <<now.year, MonthAbbr(now.month)>> =>
            /\ now.day = 1
            /\ ops[i].op = "select"
            /\ ops[i].table = MonthBefore(now)

\* a run of 1 January read December's table of the year before and put
\* its row ahead of the batch
C16_Witness ==
    /\ now.month = 1
    /\ now.day = 1
    /\ Len(ops) >= 1
    /\ \E i \in 1..Len(ops) : ops[i] = Call("select", <<now.year - 1, "dec">>, "ok")
    /\ Len(bigdata) = 2
    /\ bigdata[1].date = [year |-> now.year - 1, month |-> 12, day |-> 31]

(* C17 *)

\* positions of the reconciliation reads of the current-period table
ReconReads ==
    { i \in 1..Len(ops) : ops[i].op = "select" /\ ops[i].table = table_id }

\* C17: the current-period table is dropped only after the read of the
\* whole table succeeded in the same run; a failed read (table missing,
\* query rejected, store fault) is the last store call of the run, which
\* ends non-zero with the tables as they were before the read.
C17_DropOnlyAfterRead ==
    /\ [](\A d \in 1..Len(ops) :
            ops[d].op \in {"delete_table", "create_table"} =>
                \E r \in ReconReads : r < d /\ ops[r].result = "ok")
    /\ [](\A r \in ReconReads :
            ops[r].result # "ok" =>
                (r = Len(ops) /\ pc = "exit" /\ outcome = "error" /\ job = NoJob))
    /\ [][ (pc = "recon_read") => (store' = store) ]_vars

\* a run appended its batch and ended on the failed read, the table still
\* holding the appended rows
C17_Witness ==
    /\ pc = "exit"
    /\ outcome = "error"
    /\ Len(ops) = 2
    /\ ops[1] = Call("load", table_id, "ok")
    /\ ops[2].op = "select"
    /\ ops[2].table = table_id
    /\ ops[2].result # "ok"
    /\ store[table_id].rows = SeqToBag(bigdata)
    /\ bigdata # <<>>

(* C18 *)

\* the dedup keys of the rows of a frame
KeysOfFrame(rows) == { KeyOf(pipeline, rows[i]) : i \in 1..Len(rows) }

\* the dedup keys of the rows of a table
KeysOfTable(t) == { KeyOf(pipeline, r) : r \in BagToSet(t.rows) }

\* C18 as claimed: when a run ends normally after its pass, every dedup key
\* the reconciliation read found in the current-period table is in the
\* table (data holds one row for each of those keys).
C18_NoKeyLost ==
    ReconCompleted => KeysOfFrame(data) \subseteq KeysOfTable(store[table_id])

(* C19 *)

MutatingOps == {"load", "delete_table", "create_table", "reload"}

\* C19: every load, drop, create and reload of a run names the table of
\* the month of the timestamp taken at start-up, also after the clock has
\* passed midnight or the end of the month; no step changes any other
\* table, and the previous-period table is only queried.
C19_OneCurrentTable ==
    /\ [](\A i \in 1..Len(ops) :
            IF ops[i].op \in MutatingOps
            THEN ops[i].table = <<now.year, MonthAbbr(now.month)>>
            ELSE ops[i].op \in {"select", "count"})
    /\ [][ now' = now ]_vars
    /\ [][ \A s \in DOMAIN store :
             s # <<now.year, MonthAbbr(now.month)>> => store'[s] = store[s] ]_vars

\* a run started on the last day of a month completed its pass after the
\* clock had passed into the next month, all in the table of the month of
\* its start; the previous-period table of a day-1 run is covered by C16
C19_Witness ==
    /\ ReconCompleted
    /\ clock # now
    /\ clock.month # now.month
    /\ BagCardinality(store[<<now.year, MonthAbbr(now.month)>>].rows) >= 1
    /\ ~store[<<clock.year, MonthAbbr(clock.month)>>].exists

====
